---- MODULE Spec2Model ----
(***************************************************************************)
(* Model of the circuit functions of PennyLane_tutorial/I4.py and I5.py.   *)
(*                                                                         *)
(* Every function is a QNode: calling it resets the device it was bound to *)
(* when decorated, applies the queued gate operations one after the other  *)
(* to the device's state vector, and returns qml.state() or qml.probs().   *)
(*                                                                         *)
(* Amplitudes are complex floating-point numbers in the program.  Here a   *)
(* complex number is a pair <<re, im>> of fixed-point integers with Scale  *)
(* standing for 1.0, and every product is rounded to the nearest unit, as  *)
(* floating-point arithmetic rounds every product.  Numeric comparisons    *)
(* are therefore made up to a stated tolerance.                            *)
(***************************************************************************)
EXTENDS Integers, Sequences, FiniteSets, TLC

\* Arguments tried for the `state` parameter: MinState..MaxState.
MaxState == 2
MinState == 0 - 1

\* Tolerance, in fixed-point units, of a comparison of two amplitudes.
Tol == 5

\* The fixed-point representation of the amplitude 1.0.
Scale == 10000

\* RZ angles in the source, in fixed-point radians.
AnglePi == 31416
Angle03 == 3000

(***************************************************************************)
(* Fixed-point complex arithmetic                                          *)
(***************************************************************************)
Abs(x) == IF x >= 0 THEN x ELSE 0 - x

\* x / d rounded to the nearest integer, halves away from zero.
RoundDiv(x, d) ==
    IF x >= 0 THEN (x + d \div 2) \div d
    ELSE 0 - (((0 - x) + d \div 2) \div d)

CAdd(a, b) == <<a[1] + b[1], a[2] + b[2]>>

CMul(a, b) ==
    <<RoundDiv(a[1] * b[1] - a[2] * b[2], Scale),
      RoundDiv(a[1] * b[2] + a[2] * b[1], Scale)>>

CZero == <<0, 0>>
COne == <<Scale, 0>>
CI == <<0, Scale>>

\* np.sqrt(2): the fixed-point number nearest to the square root of 2.
Sqrt2 ==
    LET lo == CHOOSE n \in Scale..(2 * Scale) :
                  /\ n * n <= 2 * Scale * Scale
                  /\ (n + 1) * (n + 1) > 2 * Scale * Scale
    IN  IF 2 * Scale * Scale - lo * lo <= (lo + 1) * (lo + 1) - 2 * Scale * Scale
        THEN lo ELSE lo + 1

\* 1 / sqrt(2), a fixed-point division.
InvSqrt2 == RoundDiv(Scale * Scale, Sqrt2)

\* Taylor terms x^n / n! from term n on, alternating as the series of cos
\* and sin alternate: Series(t, n, x) = t - t x^2/((n+1)(n+2)) + ...
RECURSIVE Series(_, _, _)
Series(t, n, x) ==
    IF t = 0 THEN 0
    ELSE LET t1 == RoundDiv(t * x, (n + 1) * Scale)
             t2 == RoundDiv(t1 * x, (n + 2) * Scale)
         IN  t - Series(t2, n + 2, x)

Cos(x) == Series(Scale, 0, x)
Sin(x) == Series(x, 1, x)

\* e^{i x} for a fixed-point angle x.
CExp(x) == <<Cos(x), IF x >= 0 THEN Sin(x) ELSE 0 - Sin(0 - x)>>

(***************************************************************************)
(* Gates                                                                   *)
(***************************************************************************)
\* The module-level U of I4.py: np.array([[1, 1], [1, -1]]) / np.sqrt(2).
U ==
    <<<<<<RoundDiv(Scale * Scale, Sqrt2), 0>>, <<RoundDiv(Scale * Scale, Sqrt2), 0>>>>,
      <<<<RoundDiv(Scale * Scale, Sqrt2), 0>>, <<RoundDiv((0 - Scale) * Scale, Sqrt2), 0>>>>>>

MatPauliX == <<<<CZero, COne>>, <<COne, CZero>>>>
MatPauliZ == <<<<COne, CZero>>, <<CZero, <<0 - Scale, 0>>>>>>
\* Mutant of MatHadamard: the factor 1/sqrt(2) forgotten.
MatHadamardUnnormalised ==
    <<<<COne, COne>>, <<COne, <<0 - Scale, 0>>>>>>

MatHadamard ==
    <<<<<<InvSqrt2, 0>>, <<InvSqrt2, 0>>>>,
      <<<<InvSqrt2, 0>>, <<0 - InvSqrt2, 0>>>>>>
MatS == <<<<COne, CZero>>, <<CZero, CI>>>>
MatT == <<<<COne, CZero>>, <<CZero, <<InvSqrt2, InvSqrt2>>>>>>

\* Mutant of MatRZ: the full angle in the exponent instead of half of it.
MatRZFullAngle(theta) ==
    <<<<CExp(0 - theta), CZero>>, <<CZero, CExp(theta)>>>>

\* RZ(theta) = diag(e^{-i theta/2}, e^{i theta/2}).
MatRZ(theta) ==
    <<<<CExp(0 - RoundDiv(theta, 2)), CZero>>,
      <<CZero, CExp(RoundDiv(theta, 2))>>>>

\* Mutant of Adjoint: the transpose without the complex conjugation.
AdjointTransposeOnly(M) ==
    <<<<M[1][1], M[2][1]>>, <<M[1][2], M[2][2]>>>>

\* qml.adjoint: the conjugate transpose.
Conj(a) == <<a[1], 0 - a[2]>>
Adjoint(M) ==
    <<<<Conj(M[1][1]), Conj(M[2][1])>>, <<Conj(M[1][2]), Conj(M[2][2])>>>>

\* An operation of a gate sequence.
Op(g, w) == [gate |-> g, wire |-> w, angle |-> 0]
OpRZ(theta, w) == [gate |-> "RZ", wire |-> w, angle |-> theta]

Matrix(op) ==
    CASE op.gate = "PauliX" -> MatPauliX
      [] op.gate = "PauliZ" -> MatPauliZ
      [] op.gate = "Hadamard" -> MatHadamard
      [] op.gate = "S" -> MatS
      [] op.gate = "T" -> MatT
      [] op.gate = "Adjoint(S)" -> Adjoint(MatS)
      [] op.gate = "Adjoint(T)" -> Adjoint(MatT)
      [] op.gate = "RZ" -> MatRZ(op.angle)
      [] op.gate = "QubitUnitary" -> U

RECURSIVE Pow2(_)
Pow2(n) == IF n = 0 THEN 1 ELSE 2 * Pow2(n - 1)

\* The all-zero basis state of an n-wire device.
ZeroState(n) == [i \in 1..Pow2(n) |-> IF i = 1 THEN COne ELSE CZero]

\* The basis state |b> of one wire.
Basis(b) == [i \in 1..2 |-> IF i = b + 1 THEN COne ELSE CZero]

\* A one-wire matrix M applied to wire w of the n-wire state psi (wire 0 is
\* the most significant bit of the index).
ApplyMatrix(M, w, n, psi) ==
    LET stride == Pow2(n - 1 - w)
    IN  [i \in 1..Pow2(n) |->
            LET k == i - 1
                b == (k \div stride) % 2
                k0 == k - b * stride
            IN  CAdd(CMul(M[b + 1][1], psi[k0 + 1]),
                     CMul(M[b + 1][2], psi[k0 + stride + 1]))]

\* qml.probs: the squared modulus of every amplitude.
Prob(a) == RoundDiv(a[1] * a[1] + a[2] * a[2], Scale)
Probs(psi) == [i \in 1..Len(psi) |-> Prob(psi[i])]

(***************************************************************************)
(* The circuit functions: the gate sequence each one queues                *)
(***************************************************************************)
\* Mutant of varied_initial_state: any non-zero flag flips the qubit.
varied_initial_state_nonzero(state) ==
    IF state # 0
    THEN <<Op("PauliX", 0), Op("QubitUnitary", 0)>>
    ELSE <<Op("QubitUnitary", 0)>>

\* I4.py
varied_initial_state(state) ==
    IF state = 1
    THEN <<Op("PauliX", 0), Op("QubitUnitary", 0)>>
    ELSE <<Op("QubitUnitary", 0)>>

apply_hadamard == <<Op("Hadamard", 0)>>

\* Mutant of apply_hadamard_to_state: the flag test inverted.
apply_hadamard_to_state_inverted(state) ==
    (IF state # 1 THEN <<Op("PauliX", 0)>> ELSE <<>>) \o <<Op("Hadamard", 0)>>

apply_hadamard_to_state(state) ==
    (IF state = 1 THEN <<Op("PauliX", 0)>> ELSE <<>>) \o <<Op("Hadamard", 0)>>

\* Mutant of apply_hxh: the PauliX between the two Hadamards left out.
apply_hxh_no_x(state) ==
    (IF state = 1 THEN <<Op("PauliX", 0)>> ELSE <<>>)
        \o <<Op("Hadamard", 0), Op("Hadamard", 0)>>

apply_hxh(state) ==
    (IF state = 1 THEN <<Op("PauliX", 0)>> ELSE <<>>)
        \o <<Op("Hadamard", 0), Op("PauliX", 0), Op("Hadamard", 0)>>

\* I5.py
apply_z_to_plus == <<Op("Hadamard", 0), Op("PauliZ", 0)>>

fake_z == <<Op("Hadamard", 0), OpRZ(AnglePi, 0)>>

many_rotations ==
    <<Op("Hadamard", 0), Op("S", 0), Op("Adjoint(T)", 0), OpRZ(Angle03, 0),
      Op("Adjoint(S)", 0)>>

\* Mutant of just_enough_ts: the S on wire 0 written as two T gates.
just_enough_ts_s_as_tt ==
    <<Op("Hadamard", 0), Op("Hadamard", 1), Op("Hadamard", 2),
      Op("T", 0), Op("T", 0), Op("T", 1), Op("Adjoint(T)", 2),
      Op("Hadamard", 0), Op("Hadamard", 1), Op("Hadamard", 2),
      Op("Adjoint(S)", 0), Op("S", 1), Op("Adjoint(S)", 2),
      Op("S", 1), Op("Adjoint(T)", 2),
      Op("Hadamard", 0), Op("Hadamard", 1), Op("Hadamard", 2)>>

\* Mutant of just_enough_ts: the T on wire 1 applied after the second
\* Hadamard of that wire instead of before it.
just_enough_ts_late_t ==
    <<Op("Hadamard", 0), Op("Hadamard", 1), Op("Hadamard", 2),
      Op("S", 0), Op("Adjoint(T)", 2),
      Op("Hadamard", 0), Op("Hadamard", 1), Op("Hadamard", 2),
      Op("T", 1),
      Op("Adjoint(S)", 0), Op("S", 1), Op("Adjoint(S)", 2),
      Op("S", 1), Op("Adjoint(T)", 2),
      Op("Hadamard", 0), Op("Hadamard", 1), Op("Hadamard", 2)>>

just_enough_ts ==
    <<Op("Hadamard", 0), Op("Hadamard", 1), Op("Hadamard", 2),
      Op("S", 0), Op("T", 1), Op("Adjoint(T)", 2),
      Op("Hadamard", 0), Op("Hadamard", 1), Op("Hadamard", 2),
      Op("Adjoint(S)", 0), Op("S", 1), Op("Adjoint(S)", 2),
      Op("S", 1), Op("Adjoint(T)", 2),
      Op("Hadamard", 0), Op("Hadamard", 1), Op("Hadamard", 2)>>

\* The functions that take the `state` flag, and those that take nothing.
FlagFunctions == {"varied_initial_state", "apply_hadamard_to_state", "apply_hxh"}
PlainFunctions ==
    {"apply_hadamard", "apply_z_to_plus", "fake_z", "many_rotations", "just_enough_ts"}

StateArgs == MinState..MaxState
NoArg == 0

\* A call: a function and its argument (NoArg for a function without one).
Calls ==
    [fn : FlagFunctions, arg : StateArgs] \cup [fn : PlainFunctions, arg : {NoArg}]

Ops(c) ==
    CASE c.fn = "varied_initial_state" -> varied_initial_state(c.arg)
      [] c.fn = "apply_hadamard" -> apply_hadamard
      [] c.fn = "apply_hadamard_to_state" -> apply_hadamard_to_state(c.arg)
      [] c.fn = "apply_hxh" -> apply_hxh(c.arg)
      [] c.fn = "apply_z_to_plus" -> apply_z_to_plus
      [] c.fn = "fake_z" -> fake_z
      [] c.fn = "many_rotations" -> many_rotations
      [] c.fn = "just_enough_ts" -> just_enough_ts

\* The devices: every `dev = qml.device(...)` statement creates one, and a
\* function is bound by @qml.qnode(dev) to the one `dev` names at that point.
Devices ==
    {"I4.dev1", "I4.dev2", "I4.dev3", "I4.dev4", "I5.dev1", "I5.dev2", "I5.dev3"}

Wires(d) == IF d = "I5.dev3" THEN 3 ELSE 1

\* Mutant of DevOf: just_enough_ts bound to the one-wire device that `dev`
\* named before line 54 rebinds it.
DevOfStale(f) ==
    CASE f = "varied_initial_state" -> "I4.dev1"
      [] f = "apply_hadamard" -> "I4.dev2"
      [] f = "apply_hadamard_to_state" -> "I4.dev3"
      [] f = "apply_hxh" -> "I4.dev4"
      [] f = "apply_z_to_plus" -> "I5.dev1"
      [] f = "fake_z" -> "I5.dev2"
      [] f = "many_rotations" -> "I5.dev2"
      [] f = "just_enough_ts" -> "I5.dev2"

DevOf(f) ==
    CASE f = "varied_initial_state" -> "I4.dev1"
      [] f = "apply_hadamard" -> "I4.dev2"
      [] f = "apply_hadamard_to_state" -> "I4.dev3"
      [] f = "apply_hxh" -> "I4.dev4"
      [] f = "apply_z_to_plus" -> "I5.dev1"
      [] f = "fake_z" -> "I5.dev2"
      [] f = "many_rotations" -> "I5.dev2"
      [] f = "just_enough_ts" -> "I5.dev3"

\* The wires the measurement reads: qml.probs names them, qml.state() reads
\* the whole device.
MeasureWires(f) == IF f = "just_enough_ts" THEN {0, 1, 2} ELSE {0}

\* What the function returns: qml.probs(wires=[0, 1, 2]) or qml.state().
Measure(f, psi) == IF f = "just_enough_ts" THEN Probs(psi) ELSE psi

(***************************************************************************)
(* The state machine: calls, one at a time, each executed gate by gate     *)
(***************************************************************************)
\* A behaviour makes at most MaxCalls calls.
MaxCalls == 3

Idle == [fn |-> "idle", arg |-> NoArg]

VARIABLES
    devState,   \* the state vector every device holds
    cur,        \* the running call, or Idle
    pc,         \* the position of the next operation of the running call
    ret,        \* the value the last finished call returned (<<>> at start)
    results,    \* for every call, the set of values it has returned
    ncalls,     \* the number of calls started
    err         \* "WireError" once an operation addressed a missing wire

vars == <<devState, cur, pc, ret, results, ncalls, err>>

\* Executing a QNode resets its device to the all-zero state first.
ResetState(d) == ZeroState(Wires(d))

Init ==
    /\ devState = [d \in Devices |-> ZeroState(Wires(d))]
    /\ cur = Idle
    /\ pc = 0
    /\ ret = <<>>
    /\ results = [c \in Calls |-> {}]
    /\ ncalls = 0
    /\ err = "none"

\* A function is called.
Call(c) ==
    /\ cur = Idle
    /\ err = "none"
    /\ ncalls < MaxCalls
    /\ cur' = c
    /\ pc' = 1
    /\ ncalls' = ncalls + 1
    /\ devState' = [devState EXCEPT ![DevOf(c.fn)] = ResetState(DevOf(c.fn))]
    /\ UNCHANGED <<ret, results, err>>

\* The device applies the next operation of the running call.
ApplyOp ==
    /\ cur # Idle
    /\ pc <= Len(Ops(cur))
    /\ LET op == Ops(cur)[pc]
           d == DevOf(cur.fn)
       IN  IF op.wire \in 0..(Wires(d) - 1)
           THEN /\ devState' = [devState EXCEPT
                       ![d] = ApplyMatrix(Matrix(op), op.wire, Wires(d), devState[d])]
                /\ pc' = pc + 1
                /\ UNCHANGED <<cur, err>>
           ELSE /\ err' = "WireError"
                /\ cur' = Idle
                /\ pc' = 0
                /\ UNCHANGED devState
    /\ UNCHANGED <<ret, results, ncalls>>

\* The running call returns its measurement.
Return ==
    /\ cur # Idle
    /\ pc > Len(Ops(cur))
    /\ LET v == Measure(cur.fn, devState[DevOf(cur.fn)])
       IN  IF MeasureWires(cur.fn) \subseteq 0..(Wires(DevOf(cur.fn)) - 1)
           THEN /\ ret' = v
                /\ results' = [results EXCEPT ![cur] = @ \cup {v}]
                /\ UNCHANGED err
           ELSE /\ err' = "WireError"
                /\ UNCHANGED <<ret, results>>
    /\ cur' = Idle
    /\ pc' = 0
    /\ UNCHANGED <<devState, ncalls>>

Next ==
    \/ \E c \in Calls : Call(c)
    \/ ApplyOp
    \/ Return

Spec == Init /\ [][Next]_vars

(***************************************************************************)
(* Helpers of the properties                                               *)
(***************************************************************************)
Close(a, b) == Abs(a[1] - b[1]) <= Tol /\ Abs(a[2] - b[2]) <= Tol

VecClose(v, w) ==
    /\ Len(v) = Len(w)
    /\ \A i \in 1..Len(v) : Close(v[i], w[i])

CNeg(a) == <<0 - a[1], 0 - a[2]>>

\* The squared modulus of the amplitude a is 1/2.
HalfProb(a) == Abs(2 * Prob(a) - Scale) <= 2 * Tol

RECURSIVE Sum(_)
Sum(q) == IF q = <<>> THEN 0 ELSE Head(q) + Sum(Tail(q))

\* The squared amplitudes of psi sum to 1.
Normalized(psi) == Abs(Sum(Probs(psi)) - Scale) <= Tol

\* The state a device holds after executing ops from the all-zero state.
RECURSIVE RunOps(_, _, _)
RunOps(ops, n, psi) ==
    IF ops = <<>> THEN psi
    ELSE RunOps(Tail(ops), n,
                ApplyMatrix(Matrix(Head(ops)), Head(ops).wire, n, psi))

\* The operations of the running call that the device has applied.
Executed == SubSeq(Ops(cur), 1, pc - 1)
Finished == cur # Idle /\ pc > Len(Ops(cur))

TGates == {"T", "Adjoint(T)"}

\* T-count: the number of T and T-dagger gates of a sequence.
TCount(ops) == Cardinality({i \in 1..Len(ops) : ops[i].gate \in TGates})

\* The layer of operation i when every operation runs as early as possible:
\* all gates act on one wire, so it is the gate's position on its own wire.
Layer(ops, i) == Cardinality({j \in 1..i : ops[j].wire = ops[i].wire})

\* T-depth: the number of layers that hold a T or T-dagger gate.
TLayers(ops) == {Layer(ops, i) : i \in {j \in 1..Len(ops) : ops[j].gate \in TGates}}
TDepth(ops) == Cardinality(TLayers(ops))

CallOf(f, a) == [fn |-> f, arg |-> a]
Returned(f, a) == results[CallOf(f, a)]

Diagonal(M) == M[1][2] = CZero /\ M[2][1] = CZero

(***************************************************************************)
(* Properties                                                              *)
(***************************************************************************)
\* C1: for state in {0, 1}, apply_hxh(state) returns Pauli-Z applied to the
\* basis state |state>: |0> for 0 and -|1> for 1.
C1_HxhIsPauliZ ==
    \A a \in {0, 1} : \A v \in Returned("apply_hxh", a) :
        /\ VecClose(v, ApplyMatrix(MatPauliZ, 0, 1, Basis(a)))
        /\ VecClose(v, IF a = 0 THEN <<COne, CZero>> ELSE <<CZero, <<0 - Scale, 0>>>>)

C1_Witness ==
    /\ Returned("apply_hxh", 0) # {}
    /\ Returned("apply_hxh", 1) # {}

\* C2: the gate sequence of just_enough_ts holds exactly 3 T or T-dagger
\* gates over its three wires, and every other gate is a Hadamard, S or
\* S-dagger.
C2_TCountIsThree ==
    (cur # Idle /\ cur.fn = "just_enough_ts") =>
        /\ TCount(Executed) <= 3
        /\ Finished => TCount(Executed) = 3
        /\ \A i \in 1..Len(Executed) :
              Executed[i].gate \in TGates \cup {"Hadamard", "S", "Adjoint(S)"}

C2_Witness ==
    /\ Finished
    /\ cur.fn = "just_enough_ts"
    /\ TCount(Executed) = 3

\* C3: varied_initial_state(state) flips the qubit with PauliX before U
\* exactly when state = 1, applies U exactly once on both branches, and
\* returns (1/sqrt2, -1/sqrt2) when state = 1 and (1/sqrt2, 1/sqrt2) for
\* every other integer.
C3_VariedInitialState ==
    /\ \A a \in StateArgs : \A v \in Returned("varied_initial_state", a) :
          /\ VecClose(v, ApplyMatrix(U, 0, 1, Basis(IF a = 1 THEN 1 ELSE 0)))
          /\ VecClose(v, <<<<InvSqrt2, 0>>,
                           <<IF a = 1 THEN 0 - InvSqrt2 ELSE InvSqrt2, 0>>>>)
    /\ (Finished /\ cur.fn = "varied_initial_state") =>
          /\ Cardinality({i \in 1..Len(Executed) :
                             Executed[i].gate = "QubitUnitary"}) = 1
          /\ Executed[Len(Executed)].gate = "QubitUnitary"
          /\ Cardinality({i \in 1..Len(Executed) :
                             Executed[i].gate = "PauliX"})
                 = (IF cur.arg = 1 THEN 1 ELSE 0)
          /\ Len(Executed) = (IF cur.arg = 1 THEN 2 ELSE 1)

C3_Witness ==
    /\ Returned("varied_initial_state", 1) # {}
    /\ Returned("varied_initial_state", 2) # {}
    /\ Returned("varied_initial_state", 0 - 1) # {}

\* C4: the state fake_z returns equals the state apply_z_to_plus returns up to
\* a global phase: both amplitudes have squared modulus 1/2 and the amplitude
\* of |1> is the negative of the amplitude of |0>.
C4_FakeZIsZ ==
    \A v \in Returned("fake_z", NoArg) :
        /\ HalfProb(v[1])
        /\ HalfProb(v[2])
        /\ Close(v[2], CNeg(v[1]))
        /\ \A z \in Returned("apply_z_to_plus", NoArg) :
              /\ Close(z[2], CNeg(z[1]))
              /\ Close(CMul(v[1], z[2]), CMul(v[2], z[1]))

C4_Witness ==
    /\ Returned("fake_z", NoArg) # {}
    /\ Returned("apply_z_to_plus", NoArg) # {}

\* C6: the T-depth of just_enough_ts is 2: the T on wire 1 and the first
\* T-dagger on wire 2 share a layer, the second T-dagger on wire 2 is alone
\* in a later layer.
C6_TDepthIsTwo ==
    (Finished /\ cur.fn = "just_enough_ts") =>
        LET ops == Executed
            ts == {i \in 1..Len(ops) : ops[i].gate \in TGates}
            w1 == {i \in ts : ops[i].wire = 1}
            w2 == {i \in ts : ops[i].wire = 2}
        IN  /\ TDepth(ops) = 2
            /\ Cardinality(w1) = 1
            /\ Cardinality(w2) = 2
            /\ \A i \in w1 : ops[i].gate = "T"
            /\ \A i \in w2 : ops[i].gate = "Adjoint(T)"
            /\ \E i \in w1, j \in w2, k \in w2 :
                  /\ j < k
                  /\ Layer(ops, i) = Layer(ops, j)
                  /\ Layer(ops, k) > Layer(ops, j)
                  /\ \A m \in ts \ {k} : Layer(ops, m) # Layer(ops, k)

C6_Witness ==
    /\ Finished
    /\ cur.fn = "just_enough_ts"
    /\ TLayers(Executed) = {2, 5}

\* C7: after every prefix of every gate sequence the squared amplitudes of
\* the state vector sum to 1, so every returned state vector is normalized,
\* and the 8 probabilities just_enough_ts returns are non-negative and sum
\* to 1.
C7_Normalized ==
    /\ \A d \in Devices : Normalized(devState[d])
    /\ \A c \in Calls : \A v \in results[c] :
          IF c.fn = "just_enough_ts"
          THEN /\ Len(v) = 8
               /\ \A i \in 1..8 : v[i] >= 0
               /\ Abs(Sum(v) - Scale) <= Tol
          ELSE Normalized(v)

C7_Witness ==
    /\ Returned("just_enough_ts", NoArg) # {}
    /\ Returned("many_rotations", NoArg) # {}
    /\ Returned("apply_hxh", 1) # {}

\* C8: varied_initial_state and apply_hadamard_to_state return identical
\* state vectors for every integer input: the same bit-flip decision, the
\* matrix U equal to the Hadamard gate, and no QubitUnitary applied by
\* apply_hadamard_to_state.
C8_SameAsHadamardToState ==
    /\ \A a \in StateArgs :
          \A v \in Returned("varied_initial_state", a) :
              \A w \in Returned("apply_hadamard_to_state", a) : v = w
    /\ (Finished /\ cur.fn = "apply_hadamard_to_state") =>
          /\ \A i \in 1..Len(Executed) : Executed[i].gate # "QubitUnitary"
          /\ Len(Executed) = Len(varied_initial_state(cur.arg))
          /\ \A i \in 1..Len(Executed) :
                /\ Matrix(Executed[i]) = Matrix(varied_initial_state(cur.arg)[i])
                /\ Executed[i].wire = varied_initial_state(cur.arg)[i].wire

C8_Witness ==
    /\ Returned("varied_initial_state", 1) # {}
    /\ Returned("apply_hadamard_to_state", 1) # {}
    /\ Finished
    /\ cur = CallOf("apply_hadamard_to_state", 2)

\* The circuit many_rotations without its S and S-dagger.
ShortRotations == <<Op("Hadamard", 0), Op("Adjoint(T)", 0), OpRZ(Angle03, 0)>>

\* C9: every gate of many_rotations after the initial Hadamard is diagonal,
\* the state it returns equals that of Hadamard, T-dagger, RZ(0.3), and both
\* amplitudes keep squared modulus 1/2 after every gate.
C9_SAndSDaggerCancel ==
    /\ \A v \in Returned("many_rotations", NoArg) :
          VecClose(v, RunOps(ShortRotations, 1, ZeroState(1)))
    /\ (cur # Idle /\ cur.fn = "many_rotations") =>
          /\ \A i \in 2..Len(Executed) : Diagonal(Matrix(Executed[i]))
          /\ pc >= 2 =>
                /\ Executed[1].gate = "Hadamard"
                /\ HalfProb(devState[DevOf(cur.fn)][1])
                /\ HalfProb(devState[DevOf(cur.fn)][2])
          /\ Finished =>
                <<Executed[2].gate, Executed[5].gate>> = <<"S", "Adjoint(S)">>

C9_Witness ==
    /\ Returned("many_rotations", NoArg) # {}
    /\ Finished
    /\ cur.fn = "many_rotations"

\* C10: no operation and no measurement addresses a wire outside the device
\* its function is bound to, so no call fails with a wire error.
C10_WiresInRange ==
    /\ err = "none"
    /\ cur # Idle =>
          /\ \A i \in 1..Len(Ops(cur)) :
                Ops(cur)[i].wire \in 0..(Wires(DevOf(cur.fn)) - 1)
          /\ MeasureWires(cur.fn) \subseteq 0..(Wires(DevOf(cur.fn)) - 1)
          /\ cur.fn # "just_enough_ts" =>
                \A i \in 1..Len(Ops(cur)) : Ops(cur)[i].wire = 0

C10_Witness ==
    /\ err = "none"
    /\ Returned("just_enough_ts", NoArg) # {}
    /\ Returned("many_rotations", NoArg) # {}
    /\ Returned("fake_z", NoArg) # {}
====
